---- MODULE Spec2Model ----
(***************************************************************************)
(* Model of bridge.py: a FastAPI service with three routes (/health,       *)
(* /sale, /status) in front of a payment terminal SDK.  FastAPI runs each  *)
(* "def" route on a thread of its pool, so several handlers are in flight  *)
(* at once; every handler is a sequence of steps (pc) that interleave.     *)
(* The SDK (payments.Payments, Sale(), Status()) and the serial-port       *)
(* enumeration are opaque: their outcomes are chosen nondeterministically. *)
(***************************************************************************)
EXTENDS Integers, Sequences, FiniteSets, TLC

\* ---------------------------------------------------------------- bounds
NumReq == 2          \* number of HTTP requests of a run
TickStep == 60       \* largest amount of time one Tick lets pass
MaxOverdue == 60     \* how far past its deadline a timer is still counted

Requests == 1..NumReq

\* ------------------------------------------------------ program constants
SaleTimeout == 180
StatusTimeout == 60
DefaultPaymentMode == "QR"

\* -------------------------------------------------------------- strings
\* Port names are sequences of characters so that upper() is computed.
LowerCase == <<"c", "o", "m">>
UpperCase == <<"C", "O", "M">>

upper(s) ==
  [i \in DOMAIN s |->
     IF \E k \in DOMAIN LowerCase : LowerCase[k] = s[i]
       THEN UpperCase[CHOOSE k \in DOMAIN LowerCase : LowerCase[k] = s[i]]
       ELSE s[i]]

COM3 == <<"C", "O", "M", "3">>
com3 == <<"c", "o", "m", "3">>
Com9 == <<"C", "o", "m", "9">>
Com3 == <<"C", "o", "m", "3">>

\* Devices the OS can enumerate (serial.tools.list_ports.comports()).
Devices == {Com3}

\* ------------------------------------------------------- config.json
FileOne ==
  [exists |-> TRUE, wellformed |-> TRUE,
   data |-> [Sale   |-> [port_name |-> com3, tid |-> "T1"],
             Status |-> [port_name |-> COM3, tid |-> "T1"]]]

FileTwo ==
  [exists |-> TRUE, wellformed |-> TRUE,
   data |-> [Sale   |-> [port_name |-> COM3, tid |-> "T2"],
             Status |-> [port_name |-> Com9, tid |-> "T2"]]]

\* A document that parses but lacks Sale.port_name and the Status section.
FilePartial ==
  [exists |-> TRUE, wellformed |-> TRUE,
   data |-> [Sale |-> [tid |-> "T1"]]]

FileMalformed == [exists |-> TRUE, wellformed |-> FALSE, data |-> [Sale |-> [tid |-> "T1"]]]

FileAbsent == [exists |-> FALSE, wellformed |-> FALSE, data |-> [Sale |-> [tid |-> "T1"]]]

ConfigFiles == {FileOne, FileTwo, FilePartial, FileMalformed, FileAbsent}

\* ------------------------------------------------------- request bodies
SaleBodies ==
  {[order_id |-> "A1", amount |-> "100.00"],
   [order_id |-> "B2", amount |-> "5.50", payment_mode |-> "CARD"]}

StatusBodies == {[order_id |-> "B2"]}

HealthBody == [none |-> TRUE]

SaleRequest_bad(body) ==
  IF "payment_mode" \in DOMAIN body THEN body
  ELSE [payment_mode |-> "CARD"] @@ body

\* class SaleRequest: payment_mode defaults to "QR".
SaleRequest(body) ==
  IF "payment_mode" \in DOMAIN body THEN body
  ELSE [payment_mode |-> DefaultPaymentMode] @@ body

StatusRequest(body) == body

\* ------------------------------------------------------------ helpers
Section_sale(k) == "Sale"

Section(k) == IF k = "status" THEN "Status" ELSE "Sale"

Timeout(k) == IF k = "sale" THEN SaleTimeout ELSE StatusTimeout

Min(S) == CHOOSE x \in S : \A y \in S : x <= y

is_port_available_prefix(port_name, ports) ==
  \E p \in ports : SubSeq(upper(p), 1, 3) = SubSeq(upper(port_name), 1, 3)

is_port_available_onesided(port_name, ports) ==
  \E p \in ports : p = upper(port_name)

is_port_available(port_name, ports) ==
  \E p \in ports : upper(p) = upper(port_name)

\* The exception get_configs() or the two subscripts after it raise on the
\* file contents f for section s; "none" when they succeed.
LoadError(f, s) ==
  IF ~f.exists THEN [type |-> "Exception", msg |-> <<"config.json missing at config.json">>]
  ELSE IF ~f.wellformed THEN [type |-> "JSONDecodeError", msg |-> <<"Expecting value">>]
  ELSE IF s \notin DOMAIN f.data THEN [type |-> "KeyError", msg |-> <<s>>]
  ELSE IF "port_name" \notin DOMAIN f.data[s] THEN [type |-> "KeyError", msg |-> <<"port_name">>]
  ELSE [type |-> "none", msg |-> <<>>]

\* get_configs(): the file is opened and parsed on every call, so the
\* caller gets the contents config.json has at that moment.
get_configs_cached(r, file, read) ==
  IF \E q \in DOMAIN read : q < r /\ read[q].exists /\ read[q].wellformed
    THEN read[Min({q \in DOMAIN read : q < r /\ read[q].exists /\ read[q].wellformed})]
    ELSE file

get_configs(r, file, read) == file

\* json.load builds a new dict for every call: the object of request r.
ConfigObj_shared(r) == 1

ConfigObj(r) == r

\* The fields a handler writes into its section dict.
Inject(k, section, d) ==
  IF k = "sale"
    THEN [order_id |-> d.order_id, amount |-> d.amount, payment_mode |-> d.payment_mode] @@ section
    ELSE [order_id |-> d.order_id] @@ section

\* What the opaque SDK may answer to Sale()/Status() on an instance built
\* with config c.
Payloads(c) ==
  {[ResponseCode |-> "00", order_id |-> c.order_id]}

Tag(k) == IF k = "sale" THEN "SALE" ELSE "STATUS"

\* The SDK method the closure of the handler calls: call_sale / call_status.
Method(k) == IF k = "sale" THEN "Sale" ELSE "Status"

TimeoutMessage(k) ==
  IF k = "sale" THEN <<"Transaction timed out">> ELSE <<"Status request timed out">>

\* The except clauses of sale()/status(): the response and the log line for
\* exception e; escaped says the exception left the handler.
HandlerExcept_bad(k, d, e) ==
  IF e.type = "TimeoutError"
    THEN [escaped |-> FALSE,
          resp |-> [status |-> "timeout", message |-> TimeoutMessage(k)],
          line |-> <<"ERROR", Tag(k), "TIMEOUT", d.order_id>>]
    ELSE [escaped |-> TRUE,
          resp |-> [exception |-> e.type],
          line |-> <<"ERROR", Tag(k), "ERROR", d.order_id>>]

HandlerExcept_shadowed(k, d, e) ==
  [escaped |-> FALSE,
   resp |-> [status |-> "error", message |-> e.msg],
   line |-> <<"ERROR", Tag(k), "ERROR", d.order_id>>]

HandlerExcept(k, d, e) ==
  IF e.type = "TimeoutError"
    THEN [escaped |-> FALSE,
          resp |-> [status |-> "timeout", message |-> TimeoutMessage(k)],
          line |-> <<"ERROR", Tag(k), "TIMEOUT", d.order_id>>]
    ELSE [escaped |-> FALSE,
          resp |-> [status |-> "error", message |-> e.msg],
          line |-> <<"ERROR", Tag(k), "ERROR", d.order_id>>]

HealthExcept(e) ==
  [escaped |-> FALSE,
   resp |-> [status |-> "error", message |-> e.msg],
   line |-> <<"ERROR", "HEALTH", "ERROR", "">>]

\* ----------------------------------------------------------------- state
VARIABLES
  configFile,   \* contents of config.json
  ports,        \* devices currently enumerated by the OS
  kind,         \* route of request r: "none", "health", "sale", "status"
  raw,          \* JSON body of request r as sent
  data,         \* parsed body (SaleRequest / StatusRequest)
  pc,           \* position of the handler of request r
  fileRead,     \* what get_configs() read for request r
  heap,         \* the dict objects json.load returned, by object id
  sdkConfig,    \* the keyword arguments request r gave payments.Payments
  ctorCalls,    \* calls of payments.Payments by request r
  instances,    \* SDK instances constructed so far
  sdk,          \* the SDK instance of request r (0: none)
  opCalls,      \* invocations of Sale()/Status() caused by request r
  opOn,         \* instances on which request r invoked Sale()/Status()
  opName,       \* the SDK method request r invoked ("none": no call yet)
  workers,      \* worker threads started for request r
  worker,       \* worker of request r: "none", "running", "returned", "raised"
  result,       \* what the worker's call returned
  elapsed,      \* time since request r submitted its worker
  ctorElapsed,  \* time the pending payments.Payments call of r has taken
  resp,         \* response returned to the caller
  escaped,      \* an exception left the handler of request r
  failed,       \* an exception was raised inside the handler of request r
  log           \* lines request r appended to paytm_bridge.log

vars == <<configFile, ports, kind, raw, data, pc, fileRead, heap, sdkConfig,
          ctorCalls, instances, sdk, opCalls, opOn, opName, workers, worker,
          result, elapsed, ctorElapsed, resp, escaped, failed, log>>

envVars == <<configFile, ports>>
sdkVars == <<sdkConfig, ctorCalls, instances, sdk, opCalls, opOn, opName, workers, worker, result>>

NoResp == [pending |-> TRUE]
NoDict == [none |-> TRUE]

Init ==
  /\ configFile \in ConfigFiles
  /\ ports \in SUBSET Devices
  /\ kind = [r \in Requests |-> "none"]
  /\ raw = [r \in Requests |-> HealthBody]
  /\ data = [r \in Requests |-> HealthBody]
  /\ pc = [r \in Requests |-> "idle"]
  /\ fileRead = [r \in Requests |-> FileAbsent]
  /\ heap = [o \in Requests |-> NoDict]
  /\ sdkConfig = [r \in Requests |-> NoDict]
  /\ ctorCalls = [r \in Requests |-> 0]
  /\ instances = 0
  /\ sdk = [r \in Requests |-> 0]
  /\ opCalls = [r \in Requests |-> 0]
  /\ opOn = [r \in Requests |-> {}]
  /\ opName = [r \in Requests |-> "none"]
  /\ workers = [r \in Requests |-> 0]
  /\ worker = [r \in Requests |-> "none"]
  /\ result = [r \in Requests |-> NoResp]
  /\ elapsed = [r \in Requests |-> 0]
  /\ ctorElapsed = [r \in Requests |-> 0]
  /\ resp = [r \in Requests |-> NoResp]
  /\ escaped = [r \in Requests |-> FALSE]
  /\ failed = [r \in Requests |-> FALSE]
  /\ log = [r \in Requests |-> <<>>]

\* ----------------------------------------------------------- environment
\* config.json is rewritten on disk.
WriteConfig(f) ==
  /\ f \in ConfigFiles
  /\ f # configFile
  /\ configFile' = f
  /\ UNCHANGED <<ports, kind, raw, data, pc, fileRead, heap, sdkVars,
                 elapsed, ctorElapsed, resp, escaped, failed, log>>

\* A serial device is plugged in or removed.
TogglePort(p) ==
  /\ p \in Devices
  /\ ports' = IF p \in ports THEN ports \ {p} ELSE ports \cup {p}
  /\ UNCHANGED <<configFile, kind, raw, data, pc, fileRead, heap, sdkVars,
                 elapsed, ctorElapsed, resp, escaped, failed, log>>

\* ------------------------------------------------------------- requests
\* A request reaches its route; requests are numbered in arrival order.
Arrive(r, k, body) ==
  /\ pc[r] = "idle"
  /\ \A q \in Requests : q < r => pc[q] # "idle"
  /\ \/ k = "health" /\ body = HealthBody
     \/ k = "sale" /\ body \in SaleBodies
     \/ k = "status" /\ body \in StatusBodies
  /\ kind' = [kind EXCEPT ![r] = k]
  /\ raw' = [raw EXCEPT ![r] = body]
  /\ data' = [data EXCEPT ![r] =
       IF k = "sale" THEN SaleRequest(body)
       ELSE IF k = "status" THEN StatusRequest(body) ELSE body]
  /\ pc' = [pc EXCEPT ![r] = "load"]
  /\ UNCHANGED <<envVars, fileRead, heap, sdkVars, elapsed, ctorElapsed, resp, escaped, failed, log>>

\* The handler ends by returning what its except clause built for e.
Raise(r, out) ==
  /\ pc' = [pc EXCEPT ![r] = "done"]
  /\ resp' = [resp EXCEPT ![r] = out.resp]
  /\ escaped' = [escaped EXCEPT ![r] = out.escaped]
  /\ failed' = [failed EXCEPT ![r] = TRUE]
  /\ log' = [log EXCEPT ![r] = Append(@, out.line)]

HealthLoad_gated(r) ==
  /\ pc[r] = "load" /\ kind[r] = "health"
  /\ \A q \in Requests : worker[q] # "running"
  /\ LET f == get_configs(r, configFile, fileRead)
         e == LoadError(f, "Sale")
     IN
       /\ fileRead' = [fileRead EXCEPT ![r] = f]
       /\ IF e.type # "none"
         THEN /\ Raise(r, HealthExcept(e))
              /\ UNCHANGED heap
         ELSE /\ heap' = [heap EXCEPT ![ConfigObj(r)] = f.data]
              /\ pc' = [pc EXCEPT ![r] = "check"]
              /\ UNCHANGED <<resp, escaped, failed, log>>
  /\ UNCHANGED <<envVars, kind, raw, data, sdkVars, elapsed, ctorElapsed>>

\* health(): configs = get_configs(); port = configs["Sale"]["port_name"]
HealthLoad(r) ==
  /\ pc[r] = "load" /\ kind[r] = "health"
  /\ LET f == get_configs(r, configFile, fileRead)
         e == LoadError(f, "Sale")
     IN
       /\ fileRead' = [fileRead EXCEPT ![r] = f]
       /\ IF e.type # "none"
         THEN /\ Raise(r, HealthExcept(e))
              /\ UNCHANGED heap
         ELSE /\ heap' = [heap EXCEPT ![ConfigObj(r)] = f.data]
              /\ pc' = [pc EXCEPT ![r] = "check"]
              /\ UNCHANGED <<resp, escaped, failed, log>>
  /\ UNCHANGED <<envVars, kind, raw, data, sdkVars, elapsed, ctorElapsed>>

HealthCheck_probe(r) ==
  /\ pc[r] = "check" /\ kind[r] = "health"
  /\ LET port == heap[ConfigObj(r)]["Sale"].port_name IN
       resp' = [resp EXCEPT ![r] =
         [status |-> "running",
          device_connected |-> is_port_available(port, ports),
          port |-> port]]
  /\ ctorCalls' = [ctorCalls EXCEPT ![r] = @ + 1]
  /\ pc' = [pc EXCEPT ![r] = "done"]
  /\ UNCHANGED <<envVars, kind, raw, data, fileRead, heap, sdkConfig, instances,
                 sdk, opCalls, opOn, opName, workers, worker, result, elapsed,
                 ctorElapsed,
                 escaped, failed, log>>

\* health(): the return statement, which calls is_port_available(port).
HealthCheck(r) ==
  /\ pc[r] = "check" /\ kind[r] = "health"
  /\ LET port == heap[ConfigObj(r)]["Sale"].port_name IN
       resp' = [resp EXCEPT ![r] =
         [status |-> "running",
          device_connected |-> is_port_available(port, ports),
          port |-> port]]
  /\ pc' = [pc EXCEPT ![r] = "done"]
  /\ UNCHANGED <<envVars, kind, raw, data, fileRead, heap, sdkVars, elapsed, ctorElapsed,
                 escaped, failed, log>>

\* sale()/status(): get_configs(), the section and its port_name.
Load(r) ==
  /\ pc[r] = "load" /\ kind[r] \in {"sale", "status"}
  /\ LET f == get_configs(r, configFile, fileRead)
         e == LoadError(f, Section(kind[r]))
     IN
       /\ fileRead' = [fileRead EXCEPT ![r] = f]
       /\ IF e.type # "none"
         THEN /\ Raise(r, HandlerExcept(kind[r], data[r], e))
              /\ UNCHANGED heap
         ELSE /\ heap' = [heap EXCEPT ![ConfigObj(r)] = f.data]
              /\ pc' = [pc EXCEPT ![r] = "check"]
              /\ UNCHANGED <<resp, escaped, failed, log>>
  /\ UNCHANGED <<envVars, kind, raw, data, sdkVars, elapsed, ctorElapsed>>

\* sale()/status(): the port check, then the injection of the request's
\* fields into the section dict and the START log line.
Check(r) ==
  /\ pc[r] = "check" /\ kind[r] \in {"sale", "status"}
  /\ LET o == ConfigObj(r)
         s == Section(kind[r])
         port == heap[o][s].port_name
     IN IF ~is_port_available(port, ports)
          THEN /\ resp' = [resp EXCEPT ![r] =
                    [status |-> "error",
                     message |-> <<"Device not connected on ", port>>]]
               /\ pc' = [pc EXCEPT ![r] = "done"]
               /\ UNCHANGED <<heap, log>>
          ELSE /\ heap' = [heap EXCEPT ![o][s] = Inject(kind[r], @, data[r])]
               /\ log' = [log EXCEPT ![r] =
                    Append(@, <<"INFO", Tag(kind[r]), "START", data[r].order_id>>)]
               /\ pc' = [pc EXCEPT ![r] = "construct"]
               /\ UNCHANGED resp
  /\ UNCHANGED <<envVars, kind, raw, data, fileRead, sdkVars, elapsed, ctorElapsed, escaped, failed>>

ConstructBegin_inworker(r) ==
  /\ pc[r] = "construct"
  /\ sdkConfig' = [sdkConfig EXCEPT ![r] = heap[ConfigObj(r)][Section(kind[r])]]
  /\ ctorCalls' = [ctorCalls EXCEPT ![r] = @ + 1]
  /\ workers' = [workers EXCEPT ![r] = @ + 1]
  /\ log' = [log EXCEPT ![r] =
       Append(@, <<"INFO", Tag(kind[r]), "CREATE", data[r].order_id>>)]
  /\ pc' = [pc EXCEPT ![r] = "constructing"]
  /\ UNCHANGED <<envVars, kind, raw, data, fileRead, heap, instances, sdk,
                 opCalls, opOn, opName, worker, result, elapsed,
                 ctorElapsed, resp, escaped, failed>>

\* create_payment_instance(config): the log line and the call of
\* payments.Payments(**config), which copies the dict into keyword arguments.
ConstructBegin(r) ==
  /\ pc[r] = "construct"
  /\ sdkConfig' = [sdkConfig EXCEPT ![r] = heap[ConfigObj(r)][Section(kind[r])]]
  /\ ctorCalls' = [ctorCalls EXCEPT ![r] = @ + 1]
  /\ log' = [log EXCEPT ![r] =
       Append(@, <<"INFO", Tag(kind[r]), "CREATE", data[r].order_id>>)]
  /\ pc' = [pc EXCEPT ![r] = "constructing"]
  /\ UNCHANGED <<envVars, kind, raw, data, fileRead, heap, instances, sdk,
                 opCalls, opOn, opName, workers, worker, result, elapsed,
                 ctorElapsed, resp,
                 escaped, failed>>

\* payments.Payments(...) returns a new object.
NewInstance_singleton(n) == 1

NewInstance(n) == n + 1

\* The constructor returns; execute_with_timeout creates the executor and
\* submits the closure, whose worker thread calls sdk.Sale()/sdk.Status().
ConstructOk(r) ==
  /\ pc[r] = "constructing"
  /\ instances' = instances + 1
  /\ sdk' = [sdk EXCEPT ![r] = NewInstance(instances)]
  /\ workers' = [workers EXCEPT ![r] = @ + 1]
  /\ worker' = [worker EXCEPT ![r] = "running"]
  /\ opCalls' = [opCalls EXCEPT ![r] = @ + 1]
  /\ opOn' = [opOn EXCEPT ![r] = @ \cup {sdk'[r]}]
  /\ opName' = [opName EXCEPT ![r] = Method(kind[r])]
  /\ elapsed' = [elapsed EXCEPT ![r] = 0]
  /\ ctorElapsed' = [ctorElapsed EXCEPT ![r] = 0]
  /\ pc' = [pc EXCEPT ![r] = "wait"]
  /\ UNCHANGED <<envVars, kind, raw, data, fileRead, heap, sdkConfig, ctorCalls,
                 result, resp, escaped, failed, log>>

\* The constructor raises: the handler's except Exception clause.
ConstructFail(r) ==
  /\ pc[r] = "constructing"
  /\ Raise(r, HandlerExcept(kind[r], data[r],
       [type |-> "Exception", msg |-> <<"SDK init failed">>]))
  /\ ctorElapsed' = [ctorElapsed EXCEPT ![r] = 0]
  /\ UNCHANGED <<envVars, kind, raw, data, fileRead, heap, sdkVars, elapsed>>

\* The worker's SDK call returns a payload.  Nothing forces the opaque call
\* to end: a worker that stays "running" is a hung call.
WorkerReturn(r) ==
  /\ worker[r] = "running"
  /\ \E p \in Payloads(sdkConfig[r]) :
       result' = [result EXCEPT ![r] = p]
  /\ worker' = [worker EXCEPT ![r] = "returned"]
  /\ UNCHANGED <<envVars, kind, raw, data, pc, fileRead, heap, sdkConfig,
                 ctorCalls, instances, sdk, opCalls, opOn, opName, workers,
                 elapsed, ctorElapsed,
                 resp, escaped, failed, log>>

\* The worker's SDK call raises.
WorkerRaise(r) ==
  /\ worker[r] = "running"
  /\ worker' = [worker EXCEPT ![r] = "raised"]
  /\ UNCHANGED <<envVars, kind, raw, data, pc, fileRead, heap, sdkConfig,
                 ctorCalls, instances, sdk, opCalls, opOn, opName, workers, result,
                 elapsed, ctorElapsed, resp, escaped, failed, log>>

ResultDone_retry(r) ==
  /\ pc[r] = "wait"
  /\ worker[r] \in {"returned", "raised"}
  /\ IF worker[r] = "returned"
       THEN /\ resp' = [resp EXCEPT ![r] = result[r]]
            /\ log' = [log EXCEPT ![r] =
                 Append(@, <<"INFO", Tag(kind[r]), "RESPONSE", data[r].order_id>>)]
            /\ pc' = [pc EXCEPT ![r] = "done"]
            /\ UNCHANGED <<escaped, failed, sdkVars>>
       ELSE IF opCalls[r] < 2
         THEN /\ opCalls' = [opCalls EXCEPT ![r] = @ + 1]
              /\ workers' = [workers EXCEPT ![r] = @ + 1]
              /\ worker' = [worker EXCEPT ![r] = "running"]
              /\ UNCHANGED <<pc, resp, escaped, failed, log, sdkConfig, ctorCalls,
                             instances, sdk, opOn, opName, result>>
         ELSE /\ Raise(r, HandlerExcept(kind[r], data[r],
                   [type |-> "Exception", msg |-> <<"SDK error">>]))
              /\ UNCHANGED sdkVars
  /\ UNCHANGED <<envVars, kind, raw, data, fileRead, heap, elapsed, ctorElapsed>>

ResultDone_nolog(r) ==
  /\ pc[r] = "wait"
  /\ worker[r] \in {"returned", "raised"}
  /\ IF worker[r] = "returned"
       THEN /\ resp' = [resp EXCEPT ![r] = result[r]]
            /\ pc' = [pc EXCEPT ![r] = "done"]
            /\ UNCHANGED <<escaped, failed, log>>
       ELSE Raise(r, HandlerExcept(kind[r], data[r],
              [type |-> "Exception", msg |-> <<"SDK error">>]))
  /\ UNCHANGED <<envVars, kind, raw, data, fileRead, heap, sdkVars, elapsed,
                 ctorElapsed>>

\* future.result(timeout) finds the future done: the with block is left
\* (shutdown joins a finished worker at once) and the handler logs and
\* returns the response, or its except Exception clause runs.
ResultDone(r) ==
  /\ pc[r] = "wait"
  /\ worker[r] \in {"returned", "raised"}
  /\ IF worker[r] = "returned"
       THEN /\ resp' = [resp EXCEPT ![r] = result[r]]
            /\ log' = [log EXCEPT ![r] =
                 Append(@, <<"INFO", Tag(kind[r]), "RESPONSE", data[r].order_id>>)]
            /\ pc' = [pc EXCEPT ![r] = "done"]
            /\ UNCHANGED <<escaped, failed>>
       ELSE Raise(r, HandlerExcept(kind[r], data[r],
              [type |-> "Exception", msg |-> <<"SDK error">>]))
  /\ UNCHANGED <<envVars, kind, raw, data, fileRead, heap, sdkVars, elapsed, ctorElapsed>>

\* future.result(timeout) raises TimeoutError at the deadline; leaving the
\* with block calls executor.shutdown(wait=True), which joins the worker.
ResultTimeout(r) ==
  /\ pc[r] = "wait"
  /\ worker[r] = "running"
  /\ elapsed[r] >= Timeout(kind[r])
  /\ failed' = [failed EXCEPT ![r] = TRUE]
  /\ pc' = [pc EXCEPT ![r] = "shutdown"]
  /\ UNCHANGED <<envVars, kind, raw, data, fileRead, heap, sdkVars, elapsed, ctorElapsed,
                 resp, escaped, log>>

ShutdownReturns_nowait(w) == TRUE

\* Whether leaving the with block may proceed: shutdown(wait=True) returns
\* only when the worker thread has ended.
ShutdownReturns(w) == w # "running"

\* The with block is left after the timeout; TimeoutError reaches the
\* handler's except concurrent.futures.TimeoutError clause.
ShutdownJoin(r) ==
  /\ pc[r] = "shutdown"
  /\ ShutdownReturns(worker[r])
  /\ Raise(r, HandlerExcept(kind[r], data[r],
       [type |-> "TimeoutError", msg |-> <<>>]))
  /\ UNCHANGED <<envVars, kind, raw, data, fileRead, heap, sdkVars, elapsed, ctorElapsed>>

\* ------------------------------------------------------------------ time
Timed == {r \in Requests : pc[r] \in {"wait", "shutdown"}}

\* Requests inside payments.Payments(...), which runs on the handler's own
\* thread with no deadline.
Constructing == {r \in Requests : pc[r] = "constructing"}

\* A handler that can return or time out does so before time moves on.
Urgent ==
  \E r \in Requests :
    \/ pc[r] = "wait" /\ (worker[r] # "running" \/ elapsed[r] >= Timeout(kind[r]))
    \/ pc[r] = "shutdown" /\ ShutdownReturns(worker[r])

\* Wall-clock time passes, at most up to the next deadline.
Tick ==
  /\ ~Urgent
  /\ Timed \cup Constructing # {}
  /\ LET d == Min({TickStep} \cup
                  {Timeout(kind[r]) - elapsed[r] : r \in {q \in Timed : pc[q] = "wait"}})
     IN elapsed' = [r \in Requests |->
          IF r \in Timed
            THEN Min({elapsed[r] + d, Timeout(kind[r]) + MaxOverdue})
            ELSE elapsed[r]]
  /\ LET d == Min({TickStep} \cup
                  {Timeout(kind[r]) - elapsed[r] : r \in {q \in Timed : pc[q] = "wait"}})
     IN ctorElapsed' = [r \in Requests |->
          IF r \in Constructing
            THEN Min({ctorElapsed[r] + d, Timeout(kind[r]) + MaxOverdue})
            ELSE ctorElapsed[r]]
  /\ elapsed' # elapsed \/ ctorElapsed' # ctorElapsed
  /\ UNCHANGED <<envVars, kind, raw, data, pc, fileRead, heap, sdkVars, resp,
                 escaped, failed, log>>

\* ----------------------------------------------------------------- spec
Next ==
  \/ \E f \in ConfigFiles : WriteConfig(f)
  \/ \E p \in Devices : TogglePort(p)
  \/ \E r \in Requests, k \in {"health", "sale", "status"},
        body \in SaleBodies \cup StatusBodies \cup {HealthBody} : Arrive(r, k, body)
  \/ \E r \in Requests : HealthLoad(r)
  \/ \E r \in Requests : HealthCheck(r)
  \/ \E r \in Requests : Load(r)
  \/ \E r \in Requests : Check(r)
  \/ \E r \in Requests : ConstructBegin(r)
  \/ \E r \in Requests : ConstructOk(r)
  \/ \E r \in Requests : ConstructFail(r)
  \/ \E r \in Requests : WorkerReturn(r)
  \/ \E r \in Requests : WorkerRaise(r)
  \/ \E r \in Requests : ResultDone(r)
  \/ \E r \in Requests : ResultTimeout(r)
  \/ \E r \in Requests : ShutdownJoin(r)
  \/ Tick

Spec == Init /\ [][Next]_vars

\* A step of the handler of request r.
HandlerStep(r) ==
  \/ HealthLoad(r) \/ HealthCheck(r) \/ Load(r) \/ Check(r)
  \/ ConstructBegin(r) \/ ResultDone(r) \/ ResultTimeout(r) \/ ShutdownJoin(r)

\* The handler threads are scheduled and the clock runs; the SDK is under
\* no obligation to return.
FairSpec ==
  /\ Spec
  /\ \A r \in Requests : WF_vars(HandlerStep(r))
  /\ \A r \in Requests : WF_vars(ConstructOk(r) \/ ConstructFail(r))
  /\ WF_vars(Tick)

\* The steps of a run during which config.json is not rewritten.
StableNext ==
  \/ \E p \in Devices : TogglePort(p)
  \/ \E r \in Requests, k \in {"health", "sale", "status"},
        body \in SaleBodies \cup StatusBodies \cup {HealthBody} : Arrive(r, k, body)
  \/ \E r \in Requests : HealthLoad(r)
  \/ \E r \in Requests : HealthCheck(r)
  \/ \E r \in Requests : Load(r)
  \/ \E r \in Requests : Check(r)
  \/ \E r \in Requests : ConstructBegin(r)
  \/ \E r \in Requests : ConstructOk(r)
  \/ \E r \in Requests : ConstructFail(r)
  \/ \E r \in Requests : WorkerReturn(r)
  \/ \E r \in Requests : WorkerRaise(r)
  \/ \E r \in Requests : ResultDone(r)
  \/ \E r \in Requests : ResultTimeout(r)
  \/ \E r \in Requests : ShutdownJoin(r)
  \/ Tick

\* FairSpec for a run with a fixed config.json (any of ConfigFiles).
StableFairSpec ==
  /\ Init /\ [][StableNext]_vars
  /\ \A r \in Requests : WF_vars(HandlerStep(r))
  /\ \A r \in Requests : WF_vars(ConstructOk(r) \/ ConstructFail(r))
  /\ WF_vars(Tick)

\* ================================================================ claims
Handlers == {r \in Requests : kind[r] \in {"sale", "status"}}

\* The handler of r logged its START line: it passed the port check.
PassedCheck(r) == \E i \in DOMAIN log[r] : log[r][i][3] = "START"

HasStatus(r, st) == "status" \in DOMAIN resp[r] /\ resp[r].status = st

\* The port the handler of r read from the configuration it loaded.
PortOf(r) == fileRead[r].data[Section(kind[r])].port_name

\* C1: at most one SDK device operation (Sale() or Status()) executes at any
\* instant: the device-operation windows of two requests never overlap.
C1_DeviceOpsNeverOverlap ==
  Cardinality({r \in Requests : worker[r] = "running"}) <= 1

\* C2: when the SDK operation has not completed at its deadline (180 for
\* Sale, 60 for Status) the handler returns its timeout response at the
\* deadline: no handler is still inside execute_with_timeout after its
\* deadline has passed, and a timeout response is returned at the deadline.
C2_TimeoutReturnedAtDeadline ==
  \A r \in Handlers :
    /\ pc[r] \in {"wait", "shutdown"} => elapsed[r] <= Timeout(kind[r])
    /\ pc[r] = "done" /\ HasStatus(r, "timeout") => elapsed[r] = Timeout(kind[r])

\* C3: every request that arrived eventually returns a response, whatever
\* its SDK call does (succeed, raise, exceed the deadline): no request is
\* blocked forever.
C3_EveryRequestReturns ==
  \A r \in Requests : (pc[r] # "idle") ~> (pc[r] = "done")

\* C4: when the configured port_name is not among the enumerated ports
\* (compared ignoring case) at the check, /sale and /status return
\* {status: "error", message: "Device not connected on <port>"} and the
\* request constructs no SDK instance, makes no Sale()/Status() call and
\* starts no worker.
C4_PortAbsentShortCircuits ==
  [][\A r \in Requests :
       ( /\ kind[r] \in {"sale", "status"}
         /\ pc[r] = "check" /\ pc'[r] # "check"
         /\ \A p \in ports : upper(p) # upper(PortOf(r)) )
       => /\ pc'[r] = "done"
          /\ resp'[r] = [status |-> "error",
                         message |-> <<"Device not connected on ", PortOf(r)>>]
          /\ ctorCalls'[r] = 0 /\ sdk'[r] = 0 /\ opCalls'[r] = 0
          /\ workers'[r] = 0 /\ worker'[r] = "none"
          /\ ~escaped'[r]]_vars

C4_Witness ==
  \E r \in Handlers :
    /\ pc[r] = "done" /\ HasStatus(r, "error")
    /\ Len(resp[r].message) = 2
    /\ resp[r].message[2] = Com9
    /\ Com3 \in ports
    /\ ctorCalls[r] = 0 /\ workers[r] = 0

InjectedFields == {"order_id", "amount", "payment_mode"}

\* C5: the config given to each request's SDK instance holds only that
\* request's own order_id/amount/payment_mode, and the configuration a
\* request has loaded holds no field injected by another request.
C5_ConfigMergeIsRequestScoped ==
  \A r \in Handlers :
    /\ pc[r] = "check" => heap[ConfigObj(r)] = fileRead[r].data
    /\ ctorCalls[r] > 0 =>
         \A f \in InjectedFields \cap DOMAIN sdkConfig[r] :
           f \in DOMAIN data[r] /\ sdkConfig[r][f] = data[r][f]

C5_Witness ==
  \E r, q \in Handlers :
    /\ r # q
    /\ pc[r] \in {"constructing", "wait"} /\ pc[q] \in {"constructing", "wait"}
    /\ data[r].order_id # data[q].order_id
    /\ sdkConfig[r].order_id = data[r].order_id
    /\ sdkConfig[q].order_id = data[q].order_id

\* C6: a request that passed the port check calls the SDK constructor
\* exactly once, its Sale()/Status() call is made on the instance it got,
\* and no SDK instance belongs to or is used by two requests.
C6_FreshInstancePerRequest ==
  \A r \in Handlers :
    /\ ctorCalls[r] <= 1
    /\ PassedCheck(r) /\ pc[r] # "construct" => ctorCalls[r] = 1
    /\ ~PassedCheck(r) => ctorCalls[r] = 0
    /\ opCalls[r] <= 1
    /\ opOn[r] \subseteq {sdk[r]} \ {0}
    /\ \A q \in Handlers \ {r} :
         /\ sdk[r] # 0 => sdk[q] # sdk[r]
         /\ opOn[r] \cap opOn[q] = {}

C6_Witness ==
  \E r, q \in Handlers :
    /\ r # q
    /\ pc[r] = "done" /\ HasStatus(r, "timeout")
    /\ opOn[r] # {} /\ opOn[q] # {}
    /\ pc[q] = "wait"

\* C7: every failure inside a handler is caught at the handler boundary: no
\* exception leaves /health, /sale or /status, a request that failed
\* returns an object whose status is "error" or "timeout", and /health
\* always returns an object with a status field.
C7_FailuresCaughtAtBoundary ==
  \A r \in Requests :
    /\ ~escaped[r]
    /\ pc[r] = "done" => "pending" \notin DOMAIN resp[r]
    /\ pc[r] = "done" /\ failed[r] =>
         HasStatus(r, "error") \/ HasStatus(r, "timeout")
    /\ pc[r] = "done" /\ kind[r] = "health" => "status" \in DOMAIN resp[r]

C7_Witness ==
  \E r, q \in Requests :
    /\ pc[r] = "done" /\ failed[r] /\ kind[r] = "sale" /\ ctorCalls[r] = 1
       /\ opCalls[r] = 0 /\ HasStatus(r, "error")
    /\ pc[q] = "done" /\ failed[q] /\ kind[q] = "health"

\* C8: one /sale request causes at most one invocation of Sale(), whether
\* the call succeeds, raises or times out.
C8_NoSaleRetry ==
  \A r \in Requests :
    kind[r] = "sale" => opCalls[r] <= 1 /\ workers[r] <= 1

C8_Witness ==
  \E r \in Requests :
    /\ kind[r] = "sale" /\ pc[r] = "done"
    /\ worker[r] = "raised" /\ HasStatus(r, "error")
    /\ opCalls[r] = 1

\* The loaded Sale section plus the request's fields, payment_mode being
\* "QR" when the request omits it.
MergedSale(r) ==
  [order_id |-> raw[r].order_id,
   amount |-> raw[r].amount,
   payment_mode |-> IF "payment_mode" \in DOMAIN raw[r]
                      THEN raw[r].payment_mode ELSE "QR"]
    @@ fileRead[r].data["Sale"]

SaleConstructedOnce(r) ==
  pc[r] # "construct" => ctorCalls[r] = 1 /\ sdkConfig[r] = MergedSale(r)

SaleSuccessUnchanged(r) ==
  pc[r] = "done" /\ worker[r] = "returned" /\ ~failed[r] => resp[r] = result[r]

C10_HealthTouchesNothing ==
  /\ [][\A r \in Requests :
          kind[r] = "health" /\ pc'[r] # pc[r] =>
            /\ UNCHANGED <<sdkConfig, ctorCalls, instances, sdk, opCalls, opOn,
                           workers, worker, result, configFile, ports>>
            /\ \A q \in Requests \ {r} : heap'[ConfigObj(q)] = heap[ConfigObj(q)]]_vars
  /\ [](\A r \in Requests :
          kind[r] = "health" /\ pc[r] \in {"load", "check"} =>
            ENABLED (HealthLoad(r) \/ HealthCheck(r)))

C10_Witness ==
  \E r, q \in Requests :
    /\ kind[r] = "health" /\ pc[r] = "done" /\ HasStatus(r, "running")
    /\ worker[q] = "running" /\ pc[q] = "shutdown"

\* Request r is between the start of its config merge and the end of its
\* SDK call.
InCriticalSection(r) ==
  pc[r] \in {"construct", "constructing"} \/ worker[r] = "running"

\* C11: config merge, SDK construction and SDK call happen only under the
\* device gate: no two requests are at once anywhere between the start of
\* their config merge and the end of their SDK call.
C11_CriticalSectionExclusive ==
  Cardinality({r \in Requests : InCriticalSection(r)}) <= 1

\* Another request's SDK call is in progress (it may never end).
OtherCallRunning(r) == \E q \in Requests \ {r} : worker[q] = "running"

\* The response of r is the Device-not-connected rejection.
Rejected(r) ==
  /\ pc[r] = "done" /\ HasStatus(r, "error")
  /\ Len(resp[r].message) = 2
  /\ resp[r].message[1] = "Device not connected on "

\* C12: while the SDK call of another request is running (possibly for
\* ever), a /health request that has arrived eventually returns, and a
\* /sale or /status request that has arrived eventually returns or gets
\* past its port check (its port was present).
C12_DeviceFreeRequestsComplete ==
  \A r \in Requests :
    /\ (kind[r] = "health" /\ pc[r] = "load" /\ OtherCallRunning(r))
         ~> (pc[r] = "done")
    /\ (kind[r] \in {"sale", "status"} /\ pc[r] = "load" /\ OtherCallRunning(r))
         ~> (pc[r] = "done" \/ PassedCheck(r))

C12_Witness ==
  \E q \in Requests :
    /\ pc[q] = "shutdown" /\ worker[q] = "running"
    /\ elapsed[q] > Timeout(kind[q])
    /\ \E r \in Requests :
         /\ r > q /\ pc[r] = "done" /\ ~failed[r]
         /\ kind[r] = "health" \/ Rejected(r)

C14_PreflightThenStillTerminates ==
  \A r \in Requests :
    (PassedCheck(r) /\ pc[r] # "done" /\ ports = {})
      ~> (pc[r] = "done" /\ ~escaped[r])

\* C15: a request reads config.json once, at its start, and gets the
\* contents the file has then; afterwards it keeps using what it loaded
\* (port and SDK fields) even when the file is rewritten meanwhile.
C15_ConfigReadFreshOncePerRequest ==
  /\ [][\A r \in Requests :
          /\ pc[r] = "load" /\ pc'[r] # "load" => fileRead'[r] = configFile
          /\ pc[r] \notin {"idle", "load"} => fileRead'[r] = fileRead[r]]_vars
  /\ [](\A r \in Requests :
          /\ pc[r] = "check" => heap[ConfigObj(r)] = fileRead[r].data
          /\ kind[r] = "health" /\ pc[r] = "done" /\ HasStatus(r, "running") =>
               resp[r].port = fileRead[r].data["Sale"].port_name
          /\ kind[r] \in {"sale", "status"} /\ Rejected(r) =>
               resp[r].message[2] = PortOf(r)
          /\ kind[r] \in {"sale", "status"} /\ ctorCalls[r] > 0 =>
               \A f \in DOMAIN fileRead[r].data[Section(kind[r])] :
                 sdkConfig[r][f] = fileRead[r].data[Section(kind[r])][f])

C15_Witness ==
  \E r, q \in Handlers :
    /\ r < q
    /\ pc[r] = "wait" /\ fileRead[r] = FileOne /\ sdkConfig[r].tid = "T1"
    /\ configFile = FileTwo
    /\ pc[q] = "wait" /\ fileRead[q] = FileTwo /\ sdkConfig[q].tid = "T2"

\* C16: /status works on the Status section: its port check and its
\* rejection name Status.port_name, the config given to the SDK is the
\* Status section plus order_id only (no amount, no payment_mode), Status()
\* is invoked once, and its deadline is 60 where that of /sale is 180.
C16_StatusSymmetricToSale ==
  \A r \in Requests :
    /\ kind[r] = "status" =>
         /\ PassedCheck(r) /\ pc[r] # "construct" =>
              /\ sdkConfig[r] =
                   [order_id |-> raw[r].order_id] @@ fileRead[r].data["Status"]
              /\ "amount" \notin DOMAIN sdkConfig[r]
              /\ "payment_mode" \notin DOMAIN sdkConfig[r]
         /\ Rejected(r) =>
              resp[r].message[2] = fileRead[r].data["Status"].port_name
         /\ opCalls[r] <= 1
         /\ sdk[r] # 0 => opCalls[r] = 1 /\ opName[r] = "Status"
         /\ pc[r] = "wait" => elapsed[r] <= 60
         /\ pc[r] = "shutdown" => elapsed[r] >= 60
         /\ pc[r] = "done" /\ HasStatus(r, "timeout") =>
              resp[r].message = <<"Status request timed out">>
    /\ kind[r] = "sale" =>
         /\ sdk[r] # 0 => opName[r] = "Sale"
         /\ pc[r] = "wait" => elapsed[r] <= 180
         /\ pc[r] = "shutdown" => elapsed[r] >= 180

C16_Witness ==
  \E r, q \in Requests :
    /\ kind[r] = "status" /\ pc[r] = "shutdown" /\ elapsed[r] = 60
    /\ opName[r] = "Status" /\ "amount" \notin DOMAIN sdkConfig[r]
    /\ kind[q] = "sale" /\ pc[q] = "wait" /\ elapsed[q] > 60

\* Two names are equal ignoring letter case.
EqualIgnoringCase(a, b) ==
  /\ Len(a) = Len(b)
  /\ \A i \in 1..Len(a) :
       \/ a[i] = b[i]
       \/ \E k \in DOMAIN LowerCase : {a[i], b[i]} = {LowerCase[k], UpperCase[k]}

PortNames == {COM3, com3, Com9, Com3}

Listed(name, ps) == \E p \in ps : EqualIgnoringCase(p, name)

\* is_port_available agrees with Listed on every name and every port set
\* (a fact about the function alone, evaluated while no request is in flight).
PortMatchAgrees ==
  \A name \in PortNames, ps \in SUBSET PortNames :
    /\ is_port_available(name, ps) <=> Listed(name, ps)
    /\ ~is_port_available(name, {})

\* C17: is_port_available(name) is true exactly when some enumerated
\* device name equals name ignoring letter case, for every name and port
\* set (false for the empty set); /health reports that value and /sale and
\* /status reject exactly when it is false.
C17_PortMatchIgnoresCase ==
  /\ []((\A r \in Requests : pc[r] = "idle") => PortMatchAgrees)
  /\ [][\A r \in Requests :
          /\ kind[r] = "health" /\ pc[r] = "check" /\ pc'[r] = "done" =>
               resp'[r].device_connected = Listed(resp'[r].port, ports)
          /\ kind[r] \in {"sale", "status"} /\ pc[r] = "check" /\ pc'[r] # "check" =>
               (pc'[r] = "done" <=> ~Listed(PortOf(r), ports))]_vars

C17_Witness ==
  \E r \in Requests :
    /\ kind[r] = "health" /\ pc[r] = "done" /\ HasStatus(r, "running")
    /\ resp[r].port = com3
    /\ resp[r].device_connected

\* C18: execute_with_timeout gives control back only when the function it
\* submitted has ended: a handler that has returned its response has no
\* worker still executing the SDK call.
C18_NoWorkerOutlivesHandler ==
  \A r \in Requests :
    pc[r] \in {"idle", "load", "check", "construct", "constructing", "done"}
      => worker[r] # "running"

C18_Witness ==
  \E r \in Handlers :
    /\ pc[r] = "done" /\ HasStatus(r, "timeout")
    /\ worker[r] = "returned"
    /\ elapsed[r] > Timeout(kind[r])

Outcomes == {"RESPONSE", "TIMEOUT", "ERROR"}

LinesOf(r, events) == {i \in DOMAIN log[r] : log[r][i][3] \in events}

\* C20: a /sale or /status request that returns after logging START for
\* its order_id has logged exactly one of RESPONSE, TIMEOUT, ERROR for that
\* order_id, after the START and as its last line; before it returns it
\* has logged none; a request rejected as device-not-connected logs nothing.
C20_LogEventsWellOrdered ==
  \A r \in Handlers :
    /\ \A i \in DOMAIN log[r] : log[r][i][4] = data[r].order_id
    /\ PassedCheck(r) =>
         /\ Cardinality(LinesOf(r, {"START"})) = 1
         /\ pc[r] # "done" => LinesOf(r, Outcomes) = {}
         /\ pc[r] = "done" =>
              /\ LinesOf(r, Outcomes) = {Len(log[r])}
              /\ \A i \in LinesOf(r, {"START"}) : i < Len(log[r])
    /\ Rejected(r) => log[r] = <<>>

C20_Witness ==
  \E r \in Handlers :
    /\ pc[r] = "done" /\ Len(log[r]) = 3
    /\ log[r][1][3] = "START" /\ log[r][3][3] = "TIMEOUT"
    /\ log[r][1][4] = "B2"

====
